---- MODULE Spec2Model ----
(***************************************************************************)
(* State-machine model of the Stata MCP server (src/src/index.ts):         *)
(* FileManager, DoFileEditor, StataExecutor and the CallTool handler.      *)
(*                                                                         *)
(* Text is modelled as a sequence of lines (what split('\n') returns) and  *)
(* a line, like a path, as a sequence of tokens.  The tokens are chosen so *)
(* that the substring '.do' only ever occurs as the token ".do" and the    *)
(* first character '*' of a line only as a leading token "*".              *)
(***************************************************************************)
EXTENDS Integers, Sequences, FiniteSets, TLC

VARIABLES
    files,      \* storage: resolved path -> text (the backup store included)
    backupsDir, \* state of the mkdir of the constructor: "pending", "ok", "failed"
    now,        \* the clock, in milliseconds
    budget,     \* number of tool calls the client still makes (bounded)
    proc,       \* the in-flight run request and its interpreter process
    last        \* the last completed tool call and its response

vars == <<files, backupsDir, now, budget, proc, last>>

----------------------------------------------------------------------------
\* Bounds of the model

\* the clock runs over 0..MaxTime
MaxTime == 1
\* the client makes at most MaxCalls calls of the file tools in a behaviour
MaxCalls == 2
\* the client makes at most MaxRuns calls of the run tools in a behaviour
MaxRuns == 1
\* the line numbers of a request are drawn from 0..MaxLineArg
MaxLineArg == 3

----------------------------------------------------------------------------
\* Paths (node's path module on POSIX)

WorkspaceDir == <<"/", "w">>

\* path.isAbsolute
IsAbsolute(p) == Len(p) > 0 /\ p[1] = "/"

\* index of the last "/" of p, 0 when there is none
LastSep(p) ==
    LET S == {i \in 1..Len(p) : p[i] = "/"}
    IN  IF S = {} THEN 0 ELSE CHOOSE i \in S : \A j \in S : j <= i

\* path.join(dir, name), for a dir that does not end with "/"
Join(d, name) == IF d = <<"/">> THEN d \o name ELSE d \o <<"/">> \o name

\* path.dirname
Dirname(p) ==
    LET i == LastSep(p)
    IN  IF i = 0 THEN <<".">> ELSE IF i = 1 THEN <<"/">> ELSE SubSeq(p, 1, i - 1)

\* path.basename(p)
Basename(p) == SubSeq(p, LastSep(p) + 1, Len(p))

\* path.basename(p, ext): the suffix ext is dropped unless it is the whole name
BasenameExt(p, ext) ==
    LET b == Basename(p)
    IN  IF Len(b) > 1 /\ b[Len(b)] = ext THEN SubSeq(b, 1, Len(b) - 1) ELSE b

\* String.prototype.replace(from, to) with string arguments: the FIRST
\* occurrence only, and the string itself when there is none
ReplaceFirst(p, from, to) ==
    LET S == {i \in 1..Len(p) : p[i] = from}
    IN  IF S = {} THEN p
        ELSE LET i == CHOOSE k \in S : \A j \in S : k <= j
             IN  [p EXCEPT ![i] = to]

BackupsDir == Join(WorkspaceDir, <<".stata-backups">>)

ResolvePath(filePath) ==
    IF IsAbsolute(filePath) THEN filePath ELSE Join(WorkspaceDir, filePath)

\* new Date().toISOString().replace(/[:.]/g, '-'): a fixed-width rendering of
\* the clock, so equal exactly when the clock values are equal; it holds no '.'
Digits == <<"0", "1", "2", "3", "4", "5", "6", "7", "8", "9">>
Num(n) == Digits[n + 1]
Timestamp(t) == Num(t)

\* request paths
PathRel     == <<"a", ".do">>                               \* a.do
PathPlain   == <<"/", "w", "/", "a", ".do">>                \* /w/a.do
PathDotDir  == <<"/", "w", "/", "my", ".do", "cs", "/", "a", ".do">> \* /w/my.docs/a.do
PathDotBase == <<"/", "w", "/", "a", ".do", ".do">>         \* /w/a.do.do
PathNoExt   == <<"/", "w", "/", "a", ".txt">>               \* /w/a.txt

EditPaths == {PathRel, PathDotDir}
RunPaths  == {PathRel, PathDotDir, PathDotBase, PathNoExt}

----------------------------------------------------------------------------
\* Text

\* the empty string; a missing (undefined) string parameter is falsy like it
Empty == <<>>
\* a file's text as the lines split('\n') gives: the empty text is one empty line
EmptyText == <<Empty>>

\* line.startsWith('*')
StartsWithStar(line) == Len(line) > 0 /\ line[1] = "*"

\* /\*\s*KW/ tested against a line: a '*' anywhere, blanks, then the keyword
MatchStarKw(line, kw) ==
    \E i \in 1..Len(line) :
        /\ line[i] = "*"
        /\ \E j \in (i + 1)..Len(line) :
              /\ line[j] = kw
              /\ \A k \in (i + 1)..(j - 1) : line[k] = " "

\* /KW/ tested against a line: the keyword anywhere
MatchKw(line, kw) == \E i \in 1..Len(line) : line[i] = kw

\* tokens standing for the Korean marker texts
KwSetup       == "INIT_SETUP"      \* 초기 설정
KwData        == "DATA_LOAD"       \* 데이터 로드
KwVarGen      == "VAR_GEN"         \* 변수 생성
KwPreproc     == "PREPROC"         \* 전처리
KwDescriptive == "DESCRIPTIVE"     \* 기술통계
KwAnalysis    == "MAIN_ANALYSIS"   \* 주요 분석
KwOutput      == "SAVE_RESULTS"    \* 결과 저장

SectionNames == {"setup", "data", "preprocessing", "descriptive", "analysis", "output"}

\* sectionMarkers[sectionName].test(line); the preprocessing pattern is the
\* alternation /\*\s*변수 생성|전처리/
MarkerTest(sectionName, line) ==
    CASE sectionName = "setup"         -> MatchStarKw(line, KwSetup)
      [] sectionName = "data"          -> MatchStarKw(line, KwData)
      [] sectionName = "preprocessing" -> MatchStarKw(line, KwVarGen) \/ MatchKw(line, KwPreproc)
      [] sectionName = "descriptive"   -> MatchStarKw(line, KwDescriptive)
      [] sectionName = "analysis"      -> MatchStarKw(line, KwAnalysis)
      [] sectionName = "output"        -> MatchStarKw(line, KwOutput)
      [] OTHER                         -> FALSE

\* lines.findIndex(line => marker.test(line)), 1-based, 0 for -1
FindMarker(lines, sectionName) ==
    LET S == {i \in 1..Len(lines) : MarkerTest(sectionName, lines[i])}
    IN  IF S = {} THEN 0 ELSE CHOOSE i \in S : \A j \in S : i <= j

----------------------------------------------------------------------------
\* Storage and the results of the components' operations

Put(fs, p, text) == [q \in (DOMAIN fs) \cup {p} |-> IF q = p THEN text ELSE fs[q]]
Remove(fs, p) == [q \in (DOMAIN fs) \ {p} |-> fs[q]]

\* an operation returns (with the storage it leaves) or throws (likewise)
Ok(fs) == [thrown |-> FALSE, err |-> "", files |-> fs]
Throw(e, fs) == [thrown |-> TRUE, err |-> e, files |-> fs]

\* the files of the backup store
BackupStore(fs) == {p \in DOMAIN fs : Dirname(p) = BackupsDir}

----------------------------------------------------------------------------
\* FileManager

FileExists(fs, resolvedPath) == resolvedPath \in DOMAIN fs

ReadFile(fs, filePath) ==
    IF ResolvePath(filePath) \in DOMAIN fs THEN Ok(fs) ELSE Throw("ENOENT", fs)

WriteFile(fs, filePath, content) == Ok(Put(fs, ResolvePath(filePath), content))

BackupPath(filePath, t) ==
    Join(BackupsDir, Basename(ResolvePath(filePath)) \o <<".", Timestamp(t), ".bak">>)

\* fs.copyFile fails when the script is missing or the backup directory is;
\* it overwrites an existing destination
CreateBackup(fs, dirState, filePath, t) ==
    LET resolvedPath == ResolvePath(filePath)
    IN  IF resolvedPath \notin DOMAIN fs \/ dirState # "ok"
        THEN Throw("ENOENT", fs)
        ELSE Ok(Put(fs, BackupPath(filePath, t), fs[resolvedPath]))

----------------------------------------------------------------------------
\* DoFileEditor

\* the while loop of insertSection, on 1-based positions: k is the line the
\* block is put in front of
RECURSIVE SkipLoop(_, _)
SkipLoop(lines, k) ==
    IF k <= Len(lines) /\ ~StartsWithStar(lines[k]) THEN SkipLoop(lines, k + 1) ELSE k

\* a variant without the loop
InsertIndexNoSkip(lines, m, position) ==
    IF position = "after" THEN m + 1 ELSE m

\* insertIndex (1-based) for the marker at line m
InsertIndex(lines, m, position) ==
    IF position = "after" THEN SkipLoop(lines, m + 1) ELSE m

\* a variant that removes the line at the insertion point: splice(k, 1, ...)
SpliceReplacing(lines, k, content) ==
    SubSeq(lines, 1, k - 1) \o <<Empty>> \o content \o <<Empty>>
        \o SubSeq(lines, k + 1, Len(lines))

\* lines.splice(k, 0, '', content, ''), then join and split again: the
\* content's own line breaks become line boundaries of the script
Splice(lines, k, content) ==
    SubSeq(lines, 1, k - 1) \o <<Empty>> \o content \o <<Empty>> \o SubSeq(lines, k, Len(lines))

\* the default value of the parameter position
PositionOrDefault(position) == IF position = "undefined" THEN "after" ELSE position

\* a variant that appends the block when no line matches the marker
InsertSectionAppend(fs, filePath, sectionName, content, position) ==
    IF ReadFile(fs, filePath).thrown THEN Throw("ENOENT", fs)
    ELSE LET lines == fs[ResolvePath(filePath)]
             m == FindMarker(lines, sectionName)
         IN  IF sectionName \notin SectionNames THEN Throw("UnknownSection", fs)
             ELSE WriteFile(fs, filePath,
                            IF m = 0 THEN Splice(lines, Len(lines) + 1, content)
                            ELSE Splice(lines, InsertIndex(lines, m, PositionOrDefault(position)),
                                        content))

InsertSection(fs, filePath, sectionName, content, position) ==
    IF ReadFile(fs, filePath).thrown THEN Throw("ENOENT", fs)
    ELSE LET lines == fs[ResolvePath(filePath)]
             m == FindMarker(lines, sectionName)
         IN  IF sectionName \notin SectionNames THEN Throw("UnknownSection", fs)
             ELSE IF m = 0 THEN Throw("SectionNotFound", fs)
             ELSE WriteFile(fs, filePath,
                            Splice(lines, InsertIndex(lines, m, PositionOrDefault(position)), content))

\* varCode: "* 변수 생성: NAME", the definition, the label statement or ''
VarCode(varName, definition, label) ==
    << <<"*", " ", KwVarGen, ":", " ">> \o varName,
       definition,
       IF label # Empty THEN <<"label variable ">> \o varName \o <<" \"">> \o label \o <<"\"">>
       ELSE Empty >>

AddVariable(fs, filePath, varName, definition, label) ==
    InsertSection(fs, filePath, "preprocessing", VarCode(varName, definition, label), "undefined")

\* analysisCode: "* TYPE 분석", the specification
AnalysisCode(analysisType, specification) ==
    << <<"*", " ">> \o analysisType \o <<" ", "ANALYSIS_OF">>, specification >>

AddAnalysis(fs, filePath, analysisType, specification) ==
    InsertSection(fs, filePath, "analysis", AnalysisCode(analysisType, specification), "undefined")

\* the text generateDoFile writes for a description and an output path
Template(description, outputPath) ==
    << <<"/*****">>,
       <<"*", " ", "PROJECT:", " ">> \o description,
       <<"*", " ", "DATE:", " ", "today">>,
       <<"*", " ", "AUTHOR:", " ", "Stata MCP Server (LLM Generated)">>,
       <<"*", " ", "PURPOSE:", " ">> \o description,
       <<"*", "*****/">>,
       Empty,
       <<"*", " ", KwSetup>>,
       <<"clear all">>,
       <<"set more off">>,
       <<"capture log close">>,
       <<"log using \"">> \o BasenameExt(outputPath, ".do") \o <<".log", "\", replace">>,
       Empty,
       <<"*", " ", "WORKDIR_SETUP">>,
       <<"cd \"">> \o Dirname(outputPath) \o <<"\"">>,
       Empty,
       <<"*", " ", KwData>>,
       <<"*", " ", "use \"your_data.dta\", clear">>,
       Empty,
       <<"*", " ", "DATA_CHECK">>,
       <<"describe">>,
       <<"summarize">>,
       Empty,
       <<"*", " ", KwVarGen, " ", "AND", " ", KwPreproc>>,
       <<"*", " ", "generate new_var = .">>,
       <<"*", " ", "replace new_var = .">>,
       Empty,
       <<"*", " ", KwDescriptive>>,
       <<"*", " ", "tabulate var1">>,
       <<"*", " ", "summarize var2, detail">>,
       Empty,
       <<"*", " ", KwAnalysis>>,
       <<"*", " ", "regress y x1 x2 x3">>,
       Empty,
       <<"*", " ", KwOutput>>,
       <<"*", " ", "outreg2 using \"results.doc\", replace">>,
       Empty,
       <<"*", " ", "GRAPHS">>,
       <<"*", " ", "graph twoway scatter y x">>,
       <<"*", " ", "graph export \"figure1.png\", replace">>,
       Empty,
       <<"log close">>,
       <<"exit">>,
       Empty >>

GenerateDoFile(fs, description, outputPath) ==
    WriteFile(fs, outputPath, Template(description, outputPath))

----------------------------------------------------------------------------
\* StataExecutor

\* a || b on strings: a unless it is empty
OrElse(a, b) == IF a # EmptyText THEN a ELSE b

\* logPath of executeDoFile, tempLogPath of executeSelectedLines
LogPathOf(doFilePath) == ReplaceFirst(doFilePath, ".do", ".log")

\* tempFilePath of executeSelectedLines
TempFilePath(filePath, startLine, endLine, t) ==
    Join(Dirname(filePath),
         <<"temp_">> \o BasenameExt(filePath, ".do")
             \o <<"_lines_", Num(startLine), "_", Num(endLine), "_", Timestamp(t), ".do">>)

\* /^\s*(clear\s+all|set\s+more\s+off|capture\s+log\s+close)/i tested against a line
RECURSIVE IsSetupLine(_)
IsSetupLine(line) ==
    IF line = Empty THEN FALSE
    ELSE IF Head(line) = " " THEN IsSetupLine(Tail(line))
    ELSE Head(line) \in {"clear all", "set more off", "capture log close"}

HasSetup(selectedLines) == \E i \in 1..Len(selectedLines) : IsSetupLine(selectedLines[i])

\* processedLines: every selected line after its provenance comment
RECURSIVE ProcessedLines(_, _)
ProcessedLines(selectedLines, startLine) ==
    IF selectedLines = <<>> THEN <<>>
    ELSE << <<"*", " ", "Line", " ", Num(startLine)>>, Head(selectedLines) >>
         \o ProcessedLines(Tail(selectedLines), startLine + 1)

PrepareExecutableCode(selectedLines, originalFilePath, startLine, endLine) ==
    << <<"/*****">>,
       <<"*", " ", "SELECTED_LINES">>,
       <<"*", " ", "SOURCE:", " ">> \o originalFilePath,
       <<"*", " ", "LINES:", " ", Num(startLine), "-", Num(endLine)>>,
       <<"*", " ", "CREATED:", " ", "today">>,
       <<"*", "*****/">>,
       Empty >>
    \o (IF HasSetup(selectedLines) THEN <<>>
        ELSE << <<"*", " ", "BASIC_SETUP">>, <<"set more off">>, <<"capture log close">>, Empty >>)
    \o ProcessedLines(selectedLines, startLine)
    \o << Empty, <<"*", " ", "SELECTED_LINES_DONE">>, <<"exit">>, Empty >>

\* the text put in front of the output of a selected-lines run
Banner(filePath, startLine, endLine) ==
    << <<"SELECTED_RESULT:">>,
       <<"FILE:", " ">> \o filePath,
       <<"LINES:", " ", Num(startLine), "-", Num(endLine)>>,
       Empty >>

\* The interpreter (external): run in the directory of the script, it writes
\* its log beside the script, under the script's name with the final
\* extension replaced by .log
IsExtension(tok) == tok \in {".do", ".log", ".txt", ".bak"}
InterpreterLogPath(doFilePath) ==
    LET b == Basename(doFilePath)
        stem == IF Len(b) > 1 /\ IsExtension(b[Len(b)]) THEN SubSeq(b, 1, Len(b) - 1) ELSE b
    IN  Join(Dirname(doFilePath), stem \o <<".log">>)

\* the texts an interpreter run can produce
LogText == << <<"log">> >>
OutText == << <<"stdout">> >>
ErrText == << <<"stderr">> >>
ReadErrorText == << <<"EXEC_ERROR:", " ", "ENOENT">> >>

\* storage after the interpreter ran doFilePath: logKind is "none", "empty" or "text"
InterpreterWrites(fs, doFilePath, logKind) ==
    CASE logKind = "none"  -> fs
      [] logKind = "empty" -> Put(fs, InterpreterLogPath(doFilePath), EmptyText)
      [] logKind = "text"  -> Put(fs, InterpreterLogPath(doFilePath), LogText)

\* a variant that falls back to the captured standard output when the log
\* cannot be read
CloseResultStdoutFallback(fs, doFilePath, code, output, errorOutput) ==
    LET logPath == LogPathOf(doFilePath)
    IN  IF logPath \in DOMAIN fs
        THEN [success |-> code = 0,
              output  |-> OrElse(fs[logPath], OrElse(output, errorOutput)),
              logPath |-> logPath]
        ELSE [success |-> FALSE,
              output  |-> OrElse(output, errorOutput),
              logPath |-> logPath]

\* a variant whose success flag is the exit code's alone when the log cannot
\* be read
CloseResultSuccessByCode(fs, doFilePath, code, output, errorOutput) ==
    LET logPath == LogPathOf(doFilePath)
    IN  IF logPath \in DOMAIN fs
        THEN [success |-> code = 0,
              output  |-> OrElse(fs[logPath], OrElse(output, errorOutput)),
              logPath |-> logPath]
        ELSE [success |-> code = 0,
              output  |-> OrElse(errorOutput, ReadErrorText),
              logPath |-> logPath]

\* the 'close' handler of executeDoFile: the result it resolves with
CloseResult(fs, doFilePath, code, output, errorOutput) ==
    LET logPath == LogPathOf(doFilePath)
    IN  IF logPath \in DOMAIN fs
        THEN [success |-> code = 0,
              output  |-> OrElse(fs[logPath], OrElse(output, errorOutput)),
              logPath |-> logPath]
        ELSE [success |-> FALSE,
              output  |-> OrElse(errorOutput, ReadErrorText),
              logPath |-> logPath]

\* a variant without the finally block
CleanupSkipped(fs, tempFilePath) == fs

\* the finally block of executeSelectedLines: when the first unlink throws,
\* the second is not reached; a missing log is ignored
Cleanup(fs, tempFilePath) ==
    IF tempFilePath \notin DOMAIN fs THEN fs
    ELSE Remove(Remove(fs, tempFilePath), LogPathOf(tempFilePath))

\* a variant without the check of the order of the two lines
RangeErrorNoOrder(n, startLine, endLine) ==
    IF startLine < 1 \/ endLine < 1 \/ startLine > n \/ endLine > n THEN "RangeInvalid"
    ELSE ""

\* the checks of executeSelectedLines on the lines of the file: "" when the
\* range passes
RangeError(n, startLine, endLine) ==
    IF startLine < 1 \/ endLine < 1 \/ startLine > n \/ endLine > n THEN "RangeInvalid"
    ELSE IF startLine > endLine THEN "RangeOrder"
    ELSE ""

\* a variant that slices from the 1-based start line as if it were 0-based
SelectedLinesOffByOne(lines, startLine, endLine) == SubSeq(lines, startLine + 1, endLine)

\* lines.slice(startLine - 1, endLine)
SelectedLines(lines, startLine, endLine) == SubSeq(lines, startLine, endLine)

----------------------------------------------------------------------------
\* Requests

\* scripts on storage at the start and written by write_do_file
ScriptA ==
    << <<"*", " ", KwSetup>>,
       <<"clear all">>,
       <<"*", " ", KwAnalysis>>,
       <<"*", " ", "logit y x">>,
       <<"regress y x">> >>
ScriptB ==
    << <<"describe">>,
       <<"display \"", KwPreproc, "\"">> >>

WriteContents == {ScriptA, ScriptB}
Descriptions == {<<"wage study">>}
LineArgs == 0..MaxLineArg

\* a params object with every field; a field that is Empty (a section that
\* is "") is missing, given = FALSE is a request without params
DefaultParams ==
    [given |-> TRUE, name |-> <<"v">>, definition |-> <<"gen v = 1">>, label |-> Empty,
     type |-> <<"logit">>, specification |-> <<"logit y x">>,
     section |-> "analysis", content |-> << <<"regress y x">> >>, position |-> "undefined"]

\* the arguments of a request, with the defaults of the fields a tool ignores
NoArgs ==
    [operation |-> "", params |-> DefaultParams, content |-> Empty, createBackup |-> TRUE,
     description |-> Empty, hasLines |-> FALSE, startLine |-> 0, endLine |-> 0]

\* the params objects tried with an operation
ParamsFor(operation) ==
    CASE operation = "add_variable" ->
            {[DefaultParams EXCEPT !.label = l] : l \in {Empty, <<"V">>}}
            \cup {[DefaultParams EXCEPT !.name = Empty], [DefaultParams EXCEPT !.definition = Empty]}
      [] operation = "add_analysis" ->
            {DefaultParams, [DefaultParams EXCEPT !.type = Empty],
             [DefaultParams EXCEPT !.specification = Empty]}
      [] operation = "insert_section" ->
            {[DefaultParams EXCEPT !.section = sec, !.position = pos] :
                sec \in SectionNames \cup {"figures"}, pos \in {"before", "after"}}
            \cup {DefaultParams, [DefaultParams EXCEPT !.section = ""],
                  [DefaultParams EXCEPT !.content = Empty]}
      [] operation = "" -> {DefaultParams}
      [] OTHER -> {DefaultParams, [DefaultParams EXCEPT !.given = FALSE]}

Operations == {"add_variable", "add_analysis", "insert_section", "rename_variable", ""}

\* the requests of each tool
EditRequests ==
    UNION {{[NoArgs EXCEPT !.operation = op, !.params = prm] : prm \in ParamsFor(op)} :
              op \in Operations}
WriteRequests ==
    {[NoArgs EXCEPT !.content = c, !.createBackup = b] :
        c \in WriteContents \cup {Empty}, b \in BOOLEAN}
GenerateRequests == {[NoArgs EXCEPT !.description = d] : d \in Descriptions \cup {Empty}}
SelectedLinesRequests ==
    {[NoArgs EXCEPT !.hasLines = TRUE, !.startLine = a, !.endLine = b] :
        a \in LineArgs, b \in LineArgs} \cup {NoArgs}

----------------------------------------------------------------------------
\* The CallTool handler

NoRun == [success |-> FALSE, output |-> EmptyText, logPath |-> Empty]

\* what the interpreter did in a run: nothing yet
NoOutcome == [spawned |-> FALSE, code |-> 0, logKind |-> "none",
              output |-> EmptyText, errorOutput |-> EmptyText]

Request(tool, filePath, args) == [tool |-> tool, path |-> filePath, args |-> args]

Idle == [pc |-> "idle", request |-> Request("", Empty, NoArgs), doFile |-> Empty]

\* a variant without the catch block: an error leaves the handler
RespondRethrow(request, r, okText, result) ==
    [tool |-> request.tool, path |-> request.path, args |-> request.args,
     text |-> IF r.thrown THEN "" ELSE okText,
     err |-> r.err, escaped |-> r.thrown,
     success |-> result.success, output |-> result.output, logPath |-> result.logPath,
     temp |-> Empty, outcome |-> NoOutcome]

\* The response of the handler to a request for the outcome r of the case's
\* body: the text the case returns, or the failure text of the catch block.
\* escaped says that the error left the handler.  temp and outcome record
\* the ephemeral script and the interpreter's run for a run request.
Respond(request, r, okText, result) ==
    [tool |-> request.tool, path |-> request.path, args |-> request.args,
     text |-> IF r.thrown THEN "Error" ELSE okText,
     err |-> r.err, escaped |-> FALSE,
     success |-> result.success, output |-> result.output, logPath |-> result.logPath,
     temp |-> Empty, outcome |-> NoOutcome]

\* the client makes a call
Call == proc.pc = "idle" /\ budget > 0 /\ budget' = budget - 1

\* case 'browse_do_files' (the listing itself is not modelled)
BrowseDoFiles(dirExists) ==
    /\ Call
    /\ last' = Respond(Request("browse_do_files", Empty, NoArgs),
                       IF dirExists THEN Ok(files) ELSE Throw("ENOENT", files),
                       "Listing", NoRun)
    /\ UNCHANGED <<files, backupsDir, now, proc>>

\* case 'read_do_file'
ReadDoFileBody(fs, filePath) ==
    IF filePath = Empty THEN Throw("Validation", fs) ELSE ReadFile(fs, filePath)

ReadDoFile(filePath) ==
    /\ Call
    /\ last' = Respond(Request("read_do_file", filePath, NoArgs),
                       ReadDoFileBody(files, filePath), "FileContent", NoRun)
    /\ UNCHANGED <<files, backupsDir, now, proc>>

\* a variant that goes on to the write when the backup throws
WriteDoFileBodyIgnoringBackup(fs, dirState, t, filePath, content, createBackup) ==
    IF filePath = Empty \/ content = Empty \/ content = EmptyText THEN Throw("Validation", fs)
    ELSE LET b == IF createBackup /\ FileExists(fs, ResolvePath(filePath))
                  THEN CreateBackup(fs, dirState, filePath, t)
                  ELSE Ok(fs)
         IN  WriteFile(b.files, filePath, content)

\* case 'write_do_file'
WriteDoFileBody(fs, dirState, t, filePath, content, createBackup) ==
    IF filePath = Empty \/ content = Empty \/ content = EmptyText THEN Throw("Validation", fs)
    ELSE LET b == IF createBackup /\ FileExists(fs, ResolvePath(filePath))
                  THEN CreateBackup(fs, dirState, filePath, t)
                  ELSE Ok(fs)
         IN  IF b.thrown THEN b ELSE WriteFile(b.files, filePath, content)

WriteDoFile(filePath, args) ==
    /\ Call
    /\ LET r == WriteDoFileBody(files, backupsDir, now, filePath, args.content, args.createBackup)
       IN  /\ files' = r.files
           /\ last' = Respond(Request("write_do_file", filePath, args), r, "FileSaved", NoRun)
    /\ UNCHANGED <<backupsDir, now, proc>>

\* the switch on the operation of case 'edit_do_file'
EditSwitch(fs, filePath, operation, params) ==
    CASE operation = "add_variable" ->
            IF params.name = Empty \/ params.definition = Empty THEN Throw("Validation", fs)
            ELSE AddVariable(fs, filePath, params.name, params.definition, params.label)
      [] operation = "add_analysis" ->
            IF params.type = Empty \/ params.specification = Empty THEN Throw("Validation", fs)
            ELSE AddAnalysis(fs, filePath, params.type, params.specification)
      [] operation = "insert_section" ->
            IF params.section = "" \/ params.content = Empty THEN Throw("Validation", fs)
            ELSE InsertSection(fs, filePath, params.section, params.content, params.position)
      [] OTHER -> Ok(fs)

\* case 'edit_do_file'
EditDoFileBody(fs, dirState, t, filePath, operation, params) ==
    IF filePath = Empty \/ operation = "" \/ ~params.given THEN Throw("Validation", fs)
    ELSE LET b == CreateBackup(fs, dirState, filePath, t)
         IN  IF b.thrown THEN b
             ELSE LET e == EditSwitch(b.files, filePath, operation, params)
                  IN  IF e.thrown THEN e ELSE ReadFile(e.files, filePath)

EditDoFile(filePath, args) ==
    /\ Call
    /\ LET r == EditDoFileBody(files, backupsDir, now, filePath, args.operation, args.params)
       IN  /\ files' = r.files
           /\ last' = Respond(Request("edit_do_file", filePath, args), r, "FileModified", NoRun)
    /\ UNCHANGED <<backupsDir, now, proc>>

\* case 'generate_do_template'
GenerateDoTemplateBody(fs, description, outputPath) ==
    IF description = Empty \/ outputPath = Empty THEN Throw("Validation", fs)
    ELSE LET g == GenerateDoFile(fs, description, outputPath)
         IN  IF g.thrown THEN g ELSE ReadFile(g.files, outputPath)

GenerateDoTemplate(outputPath, args) ==
    /\ Call
    /\ LET r == GenerateDoTemplateBody(files, args.description, outputPath)
       IN  /\ files' = r.files
           /\ last' = Respond(Request("generate_do_template", outputPath, args), r,
                              "TemplateCreated", NoRun)
    /\ UNCHANGED <<backupsDir, now, proc>>

\* default: a tool name that is none of the seven
UnknownTool ==
    /\ Call
    /\ last' = Respond(Request("no_such_tool", Empty, NoArgs),
                       Throw("UnknownTool", files), "", NoRun)
    /\ UNCHANGED <<files, backupsDir, now, proc>>

\* executeSelectedLines up to the write of the ephemeral script
ExecuteSelectedLinesStart(fs, filePath, startLine, endLine, t) ==
    IF filePath \notin DOMAIN fs THEN Throw("ENOENT", fs)
    ELSE LET lines == fs[filePath]
             e == RangeError(Len(lines), startLine, endLine)
         IN  IF e # "" THEN Throw(e, fs)
             ELSE Ok(Put(fs, TempFilePath(filePath, startLine, endLine, t),
                         PrepareExecutableCode(SelectedLines(lines, startLine, endLine),
                                               filePath, startLine, endLine)))

\* case 'run_do_file', up to the spawn of the interpreter
RunDoFile(filePath) ==
    /\ Call
    /\ LET request == Request("run_do_file", filePath, NoArgs)
       IN  IF filePath = Empty
           THEN /\ last' = Respond(request, Throw("Validation", files), "", NoRun)
                /\ proc' = proc
           ELSE /\ proc' = [pc |-> "running", request |-> request,
                            doFile |-> ResolvePath(filePath)]
                /\ last' = last
    /\ UNCHANGED <<files, backupsDir, now>>

\* case 'run_do_selected_lines', up to the spawn of the interpreter
RunSelectedLines(filePath, args) ==
    /\ Call
    /\ LET request == Request("run_do_selected_lines", filePath, args)
           r == IF filePath = Empty \/ ~args.hasLines THEN Throw("Validation", files)
                ELSE ExecuteSelectedLinesStart(files, ResolvePath(filePath),
                                               args.startLine, args.endLine, now)
       IN  IF r.thrown
           THEN /\ last' = Respond(request, r, "", NoRun)
                /\ UNCHANGED <<files, proc>>
           ELSE /\ files' = r.files
                /\ proc' = [pc |-> "running", request |-> request,
                            doFile |-> TempFilePath(ResolvePath(filePath), args.startLine,
                                                    args.endLine, now)]
                /\ last' = last
    /\ UNCHANGED <<backupsDir, now>>

\* the part of the run request that follows executeDoFile: for the selected
\* lines the banner is put in front of the output and the finally block runs
IsSelected == proc.request.tool = "run_do_selected_lines"

AfterRun(fs) == IF IsSelected THEN Cleanup(fs, proc.doFile) ELSE fs

RunResponse(r, result, outcome) ==
    LET args == proc.request.args
        enhanced == IF IsSelected /\ ~r.thrown
                    THEN [result EXCEPT !.output =
                             Banner(ResolvePath(proc.request.path), args.startLine, args.endLine)
                             \o @]
                    ELSE result
    IN  [Respond(proc.request, r, "RunReport", enhanced)
            EXCEPT !.temp = IF IsSelected THEN proc.doFile ELSE Empty,
                   !.outcome = outcome]

\* stataProcess.on('error'): the promise of executeDoFile is rejected
InterpreterSpawnFails ==
    /\ proc.pc = "running"
    /\ files' = AfterRun(files)
    /\ last' = RunResponse(Throw("SpawnFailed", files'), NoRun, NoOutcome)
    /\ proc' = Idle
    /\ UNCHANGED <<backupsDir, now, budget>>

\* stataProcess.on('close'): the interpreter has run the script, written its
\* log or not, and exited with a code
InterpreterExits(code, logKind, output, errorOutput) ==
    /\ proc.pc = "running"
    /\ LET fs == InterpreterWrites(files, proc.doFile, logKind)
           result == CloseResult(fs, proc.doFile, code, output, errorOutput)
       IN  /\ files' = AfterRun(fs)
           /\ last' = RunResponse(Ok(files'), result,
                                  [spawned |-> TRUE, code |-> code, logKind |-> logKind,
                                   output |-> output, errorOutput |-> errorOutput])
    /\ proc' = Idle
    /\ UNCHANGED <<backupsDir, now, budget>>

----------------------------------------------------------------------------
\* The environment

\* ensureDirectories, started by the constructor and not awaited: the mkdir
\* completes at some point, or fails (the failure is only logged)
EnsureDirectories ==
    /\ backupsDir = "pending"
    /\ backupsDir' \in {"ok", "failed"}
    /\ UNCHANGED <<files, now, budget, proc, last>>

\* a millisecond passes
Tick ==
    /\ now < MaxTime
    /\ now' = now + 1
    /\ UNCHANGED <<files, backupsDir, budget, proc, last>>

----------------------------------------------------------------------------
\* Specifications

\* the scripts on storage at the start
Scripts ==
    (PathPlain :> ScriptA) @@ (PathDotDir :> ScriptB)
    @@ (PathDotBase :> ScriptB) @@ (PathNoExt :> ScriptA)
GeneratedScripts ==
    (PathPlain :> Template(<<"wage study">>, PathRel)) @@ (PathDotDir :> ScriptA)

NoResponse == Respond(Request("", Empty, NoArgs), Ok(Scripts), "", NoRun)

InitWith(storages, n) ==
    /\ files \in storages
    /\ backupsDir = "pending"
    /\ now = 0
    /\ budget = n
    /\ proc = Idle
    /\ last = NoResponse

WritePaths == {PathRel, PathDotDir, Empty}
InterpreterTexts(t) == {EmptyText, t}

ReadTools ==
    \/ \E dirExists \in BOOLEAN : BrowseDoFiles(dirExists)
    \/ \E filePath \in WritePaths : ReadDoFile(filePath)
    \/ UnknownTool
WriteTools ==
    \/ \E filePath \in WritePaths, args \in WriteRequests : WriteDoFile(filePath, args)
    \/ \E outputPath \in WritePaths, args \in GenerateRequests :
          GenerateDoTemplate(outputPath, args)
EditTool ==
    \E filePath \in EditPaths \cup {Empty}, args \in EditRequests : EditDoFile(filePath, args)
RunTools ==
    \/ \E filePath \in RunPaths \cup {Empty} : RunDoFile(filePath)
    \/ \E filePath \in RunPaths \cup {Empty}, args \in SelectedLinesRequests :
          RunSelectedLines(filePath, args)
Interpreter ==
    \/ InterpreterSpawnFails
    \/ \E code \in {0, 1}, logKind \in {"none", "empty", "text"},
          output \in InterpreterTexts(OutText), errorOutput \in InterpreterTexts(ErrText) :
          InterpreterExits(code, logKind, output, errorOutput)

\* the editing tool on the scripts
InitEdit == InitWith({Scripts, GeneratedScripts}, MaxCalls)
NextEdit == EnsureDirectories \/ EditTool
SpecEdit == InitEdit /\ [][NextEdit]_vars

\* the tools that write whole scripts, with the clock
InitWrite == InitWith({Scripts}, MaxCalls)
NextWrite == EnsureDirectories \/ Tick \/ WriteTools
SpecWrite == InitWrite /\ [][NextWrite]_vars

\* the run tools and the interpreter
InitRun == InitWith({Scripts}, MaxRuns)
NextRun == RunTools \/ Interpreter
SpecRun == InitRun /\ [][NextRun]_vars

\* one request to the run tools, with an interpreter that eventually fails
\* to spawn or exits
InitRunFair == InitWith({Scripts}, 1)
SpecRunFair == InitRunFair /\ [][NextRun]_vars /\ WF_vars(Interpreter)

\* the whole server answering one request
Init == InitWith({Scripts}, 1)
Next == EnsureDirectories \/ Tick \/ ReadTools \/ WriteTools \/ EditTool \/ RunTools \/ Interpreter
Spec == Init /\ [][Next]_vars

----------------------------------------------------------------------------
\* Properties

\* a step in which the client makes a call, and the request of that call
Called == budget' = budget - 1
Req == IF proc'.pc = "running" THEN proc'.request
       ELSE Request(last'.tool, last'.path, last'.args)
\* a step in which a run request completes
Completed == proc.pc = "running" /\ proc'.pc = "idle"

\* the section an edit request targets, the block it inserts and where
TargetSection(args) ==
    CASE args.operation = "add_variable"   -> "preprocessing"
      [] args.operation = "add_analysis"   -> "analysis"
      [] args.operation = "insert_section" -> args.params.section
      [] OTHER -> ""
TargetBlock(args) ==
    CASE args.operation = "add_variable" ->
            VarCode(args.params.name, args.params.definition, args.params.label)
      [] args.operation = "add_analysis" ->
            AnalysisCode(args.params.type, args.params.specification)
      [] OTHER -> args.params.content
TargetsAfter(args) ==
    \/ args.operation \in {"add_variable", "add_analysis"}
    \/ args.operation = "insert_section" /\ args.params.position \in {"after", "undefined"}
\* the parameters the operation of an edit request requires are all there
ParamsComplete(args) ==
    /\ args.params.given
    /\ CASE args.operation = "add_variable" ->
               args.params.name # Empty /\ args.params.definition # Empty
         [] args.operation = "add_analysis" ->
               args.params.type # Empty /\ args.params.specification # Empty
         [] args.operation = "insert_section" ->
               args.params.section # "" /\ args.params.content # Empty
         [] OTHER -> TRUE
\* an edit request that names a script and one of the three operations
IsInsertion(r) ==
    /\ r.tool = "edit_do_file"
    /\ r.path # Empty
    /\ r.args.operation \in {"add_variable", "add_analysis", "insert_section"}
    /\ r.args.params.given

\* C1: when a run of selected lines that wrote its ephemeral script has
\* returned or thrown, neither the ephemeral script nor the log the
\* interpreter produced for it is on storage
C1_EphemeralArtifactsRemoved ==
    (proc.pc = "idle" /\ last.tool = "run_do_selected_lines" /\ last.temp # Empty)
        => /\ last.temp \notin DOMAIN files
           /\ InterpreterLogPath(last.temp) \notin DOMAIN files

C3_AbsentSectionFails ==
    [][(/\ Called /\ IsInsertion(Req)
        /\ ResolvePath(Req.path) \in DOMAIN files
        /\ TargetSection(Req.args) \in SectionNames
        /\ FindMarker(files[ResolvePath(Req.path)], TargetSection(Req.args)) = 0)
        => /\ proc'.pc = "idle" /\ last'.text = "Error"
           /\ ResolvePath(Req.path) \in DOMAIN files'
           /\ files'[ResolvePath(Req.path)] = files[ResolvePath(Req.path)]
           /\ (ParamsComplete(Req.args) /\ backupsDir = "ok")
                 => last'.err = "SectionNotFound"]_vars

\* C3 witness: an edit of a script without the targeted marker was answered
\* with the section-not-found error
C3_Witness ==
    /\ last.tool = "edit_do_file" /\ last.err = "SectionNotFound" /\ last.text = "Error"
    /\ ResolvePath(last.path) \in DOMAIN files
    /\ FindMarker(files[ResolvePath(last.path)], TargetSection(last.args)) = 0

\* C4: a request for selected lines whose range has start > end, start < 1
\* or end > N fails with a range error and no result, writes no ephemeral
\* script and spawns no interpreter; start > end with both lines inside
\* 1..N has its own error
C4_BadRangeRejected ==
    [][(/\ Called /\ Req.tool = "run_do_selected_lines"
        /\ Req.path # Empty /\ Req.args.hasLines
        /\ ResolvePath(Req.path) \in DOMAIN files
        /\ LET n == Len(files[ResolvePath(Req.path)])
           IN  \/ Req.args.startLine > Req.args.endLine
               \/ Req.args.startLine < 1
               \/ Req.args.endLine > n)
        => LET n == Len(files[ResolvePath(Req.path)])
           IN  /\ proc'.pc = "idle"
               /\ files' = files
               /\ last'.text = "Error" /\ last'.output = EmptyText /\ ~last'.success
               /\ last'.err \in {"RangeInvalid", "RangeOrder"}
               /\ last'.err = "RangeOrder"
                     <=> /\ Req.args.startLine > Req.args.endLine
                         /\ Req.args.startLine \in 1..n
                         /\ Req.args.endLine \in 1..n]_vars

\* C4 witness: a request with start > end, both inside the script, was
\* answered with the error of the order check
C4_Witness ==
    /\ last.tool = "run_do_selected_lines" /\ last.err = "RangeOrder" /\ last.text = "Error"
    /\ last.args.startLine > last.args.endLine /\ last.args.endLine >= 1
    /\ last.args.startLine <= Len(files[ResolvePath(last.path)])

\* C5: a write_do_file with backups enabled that saves an existing script
\* adds exactly one file to the backup store, named after the script and
\* the clock, holding the script's content from before the call
C5_ExactlyOneNewBackup ==
    [][(/\ Called /\ Req.tool = "write_do_file" /\ Req.args.createBackup
        /\ Req.path # Empty /\ ResolvePath(Req.path) \in DOMAIN files
        /\ last'.text = "FileSaved")
        => /\ BackupStore(files') \ BackupStore(files) = {BackupPath(Req.path, now)}
           /\ files'[BackupPath(Req.path, now)] = files[ResolvePath(Req.path)]]_vars

\* C6: a call of write_do_file with backups enabled, of edit_do_file or of
\* generate_do_template that changes the content of an existing script
\* leaves a backup of the replaced content
C6_BackupBeforeEveryChange ==
    [][(/\ Called /\ Req.tool \in {"write_do_file", "edit_do_file", "generate_do_template"}
        /\ Req.tool = "write_do_file" => Req.args.createBackup
        /\ Req.path # Empty /\ ResolvePath(Req.path) \in DOMAIN files
        /\ files'[ResolvePath(Req.path)] # files[ResolvePath(Req.path)])
        => /\ BackupPath(Req.path, now) \in DOMAIN files'
           /\ files'[BackupPath(Req.path, now)] = files[ResolvePath(Req.path)]]_vars

\* the backup of a well-formed write or edit request cannot be made
BackupFails(r) ==
    \/ /\ r.tool = "write_do_file" /\ r.args.createBackup
       /\ r.path # Empty /\ r.args.content \notin {Empty, EmptyText}
       /\ ResolvePath(r.path) \in DOMAIN files /\ backupsDir # "ok"
    \/ /\ r.tool = "edit_do_file"
       /\ r.path # Empty /\ r.args.operation # "" /\ r.args.params.given
       /\ (ResolvePath(r.path) \notin DOMAIN files \/ backupsDir # "ok")

\* C7: when the backup of a write_do_file (backups enabled, script exists)
\* or of an edit_do_file cannot be made, the call is answered with a failure
\* and storage is as before the call
C7_FailedBackupBlocksMutation ==
    [][(Called /\ BackupFails(Req)) => (last'.text = "Error" /\ files' = files)]_vars

\* C7 witness: a write with backups enabled onto an existing script failed
\* on its backup and the script does not hold the content of the request
C7_Witness ==
    /\ last.tool = "write_do_file" /\ last.args.createBackup
    /\ last.text = "Error" /\ last.err = "ENOENT"
    /\ ResolvePath(last.path) \in DOMAIN files
    /\ files[ResolvePath(last.path)] # last.args.content

\* C8: an edit_do_file request that lacks a parameter its operation requires
\* is answered with a failure and neither the script nor the backup store
\* differs from before the call
C8_MissingParameterNoEffect ==
    [][(/\ Called /\ IsInsertion(Req) /\ ~ParamsComplete(Req.args)
        /\ ResolvePath(Req.path) \in DOMAIN files)
        => /\ last'.text = "Error"
           /\ files'[ResolvePath(Req.path)] = files[ResolvePath(Req.path)]
           /\ BackupStore(files') = BackupStore(files)
           /\ \A q \in BackupStore(files) : files'[q] = files[q]]_vars

\* C9: no error leaves the handler: every failure of an operation, a spawn
\* failure included, is answered with a failure message
C9_ErrorsBecomeResponses ==
    /\ ~last.escaped
    /\ last.err # "" => last.text = "Error"
    /\ last.err = "" => last.text # "Error"

\* C9 witness: a run request whose interpreter could not be spawned was
\* answered with a failure message
C9_Witness ==
    /\ last.tool \in {"run_do_file", "run_do_selected_lines"}
    /\ last.err = "SpawnFailed" /\ last.text = "Error" /\ ~last.escaped

\* the output of a result with the banner of a selected-lines run in front
Reported(text) ==
    IF IsSelected
    THEN Banner(ResolvePath(proc.request.path), proc.request.args.startLine,
                proc.request.args.endLine) \o text
    ELSE text

\* C10 as stated: the output of an execution result is the log's content if
\* the log exists and is not empty, else the captured standard output if not
\* empty, else the captured standard error
C10_LogThenStdoutThenStderr ==
    [][(Completed /\ last'.outcome.spawned)
        => LET o == last'.outcome
               fs == InterpreterWrites(files, proc.doFile, o.logKind)
               logPath == LogPathOf(proc.doFile)
           IN  last'.output =
                  Reported(IF logPath \in DOMAIN fs /\ fs[logPath] # EmptyText THEN fs[logPath]
                           ELSE IF o.output # EmptyText THEN o.output
                           ELSE o.errorOutput)]_vars

\* C10 amended: when the log at the path derived from the script's path can
\* be read, the output is its content if not empty, else the captured
\* standard output if not empty, else the captured standard error; when it
\* cannot be read, the output is the captured standard error if not empty,
\* else the message of the read error, and the standard output is not used
C10_PrecedenceByLogReadable ==
    [][(Completed /\ last'.outcome.spawned)
        => LET o == last'.outcome
               fs == InterpreterWrites(files, proc.doFile, o.logKind)
               logPath == LogPathOf(proc.doFile)
           IN  last'.output =
                  Reported(IF logPath \in DOMAIN fs
                           THEN IF fs[logPath] # EmptyText THEN fs[logPath]
                                ELSE IF o.output # EmptyText THEN o.output
                                ELSE o.errorOutput
                           ELSE IF o.errorOutput # EmptyText THEN o.errorOutput
                                ELSE ReadErrorText)]_vars

\* C10 witness: a run of a script left no log and captured both streams, and
\* the result's output is the standard error
C10_Witness ==
    /\ last.tool = "run_do_file" /\ last.outcome.spawned
    /\ last.outcome.logKind = "none"
    /\ last.outcome.output = OutText /\ last.outcome.errorOutput = ErrText
    /\ LogPathOf(ResolvePath(last.path)) \notin DOMAIN files
    /\ last.output = ErrText

\* C11 as stated: when the spawned interpreter exits, the run completes with
\* a result, not an error, and the result's success flag is true exactly
\* when the exit code is 0
C11_SuccessIffExitZero ==
    [][(Completed /\ last'.outcome.spawned)
        => /\ last'.text = "RunReport" /\ last'.err = "" /\ ~last'.escaped
           /\ last'.success <=> last'.outcome.code = 0]_vars

\* C11 amended: when the spawned interpreter exits, the run completes with a
\* result, not an error, and the result's success flag is true exactly when
\* the exit code is 0 and the log at the path derived from the script's path
\* can be read
C11_SuccessIffExitZeroAndLogRead ==
    [][(Completed /\ last'.outcome.spawned)
        => LET fs == InterpreterWrites(files, proc.doFile, last'.outcome.logKind)
           IN  /\ last'.text = "RunReport" /\ last'.err = "" /\ ~last'.escaped
               /\ last'.success <=> /\ last'.outcome.code = 0
                                    /\ LogPathOf(proc.doFile) \in DOMAIN fs]_vars

\* C11 witness: an interpreter that exited with code 0 and left no log was
\* reported as a result without success
C11_Witness ==
    /\ last.tool = "run_do_file" /\ last.text = "RunReport"
    /\ last.outcome.spawned /\ last.outcome.code = 0 /\ last.outcome.logKind = "none"
    /\ LogPathOf(ResolvePath(last.path)) \notin DOMAIN files
    /\ ~last.success

\* the provenance comment of source line n in an ephemeral script
LineTag(n) == <<"*", " ", "Line", " ", Num(n)>>

\* a request for selected lines of an existing script with 1 <= start <= end <= N
ValidRange(r) ==
    /\ r.tool = "run_do_selected_lines" /\ r.path # Empty /\ r.args.hasLines
    /\ ResolvePath(r.path) \in DOMAIN files
    /\ 1 <= r.args.startLine /\ r.args.startLine <= r.args.endLine
    /\ r.args.endLine <= Len(files[ResolvePath(r.path)])

\* C12: for a range 1 <= start <= end <= N the ephemeral script holds, behind
\* its header (and the basic setup when there is one), exactly end - start + 1
\* pairs of lines: the comment 'Line {start + i - 1}' and source line
\* start + i - 1 verbatim, followed by the four closing lines
C12_ExtractsTaggedSlice ==
    [][(Called /\ ValidRange(Req))
        => /\ proc'.pc = "running" /\ proc'.doFile \in DOMAIN files'
           /\ LET source == files[ResolvePath(Req.path)]
                  start == Req.args.startLine
                  n == Req.args.endLine - start + 1
                  script == files'[proc'.doFile]
              IN  \E off \in {7, 11} :
                     /\ Len(script) = off + 2 * n + 4
                     /\ \A i \in 1..n :
                           /\ script[off + 2 * i - 1] = LineTag(start + i - 1)
                           /\ script[off + 2 * i] = source[start + i - 1]
                     /\ [i \in 1..n |-> script[off + 2 * i]]
                           = SubSeq(source, start, Req.args.endLine)]_vars

\* C12 witness: the ephemeral script of a range of two lines or more is on
\* storage, its last extracted line being the source's end line
C12_Witness ==
    /\ proc.pc = "running" /\ IsSelected
    /\ proc.request.args.startLine < proc.request.args.endLine
    /\ proc.doFile \in DOMAIN files
    /\ LET script == files[proc.doFile]
       IN  /\ script[Len(script) - 4]
                 = files[ResolvePath(proc.request.path)][proc.request.args.endLine]
           /\ script[Len(script) - 5] = LineTag(proc.request.args.endLine)

\* C13: a successful insertion leaves the original lines undisturbed: the
\* script afterwards is the original with a blank line, the content block
\* and a blank line inserted at one index (three lines for a one-line
\* content), and without them it is the original again
C13_InsertionLeavesOriginal ==
    [][(Called /\ IsInsertion(Req) /\ last'.text = "FileModified")
        => LET lines == files[ResolvePath(Req.path)]
               after == files'[ResolvePath(Req.path)]
               block == TargetBlock(Req.args)
               b == Len(block)
           IN  /\ Len(after) = Len(lines) + b + 2
               /\ b = 1 => Len(after) = Len(lines) + 3
               /\ \E k \in 1..(Len(lines) + 1) :
                     /\ after[k] = Empty
                     /\ SubSeq(after, k + 1, k + b) = block
                     /\ after[k + b + 1] = Empty
                     /\ SubSeq(after, 1, k - 1) \o SubSeq(after, k + b + 2, Len(after)) = lines
                     /\ \A i \in 1..(k - 1) : after[i] = lines[i]
                     /\ \A i \in k..Len(lines) : after[i + b + 2] = lines[i]]_vars

\* C13 witness: a block was inserted with position 'before' and stands, a
\* blank line apart, in front of the marker
C13_Witness ==
    /\ last.tool = "edit_do_file" /\ last.text = "FileModified"
    /\ last.args.operation = "insert_section" /\ last.args.params.position = "before"
    /\ LET lines == files[ResolvePath(last.path)]
           m == FindMarker(lines, last.args.params.section)
       IN  /\ m > 3
           /\ lines[m - 1] = Empty
           /\ lines[m - 2] = last.args.params.content[1]
           /\ lines[m - 3] = Empty

\* C14: with an interpreter that eventually fails to spawn or exits, every
\* request for selected lines that started its interpreter eventually
\* completes, with its ephemeral script removed by then; until the
\* interpreter step the request stays in flight, its ephemeral script on
\* storage and nothing answered
C14_CompletesAfterInterpreter ==
    /\ []((proc.pc = "running" /\ IsSelected) => proc.doFile \in DOMAIN files)
    /\ [][(proc.pc = "running" /\ proc'.pc = "running") => UNCHANGED <<files, last>>]_vars
    /\ [][Completed => /\ last'.tool = proc.request.tool
                       /\ last'.path = proc.request.path
                       /\ last'.args = proc.request.args
                       /\ last'.text \in {"RunReport", "Error"}]_vars
    /\ (proc.pc = "running" /\ IsSelected)
          ~> (/\ proc.pc = "idle"
              /\ last.tool = "run_do_selected_lines"
              /\ last.temp # Empty /\ last.temp \notin DOMAIN files)

\* C14 witness: a request for selected lines whose interpreter could not be
\* spawned has completed with an error and its ephemeral script is gone
C14_Witness ==
    /\ proc.pc = "idle" /\ last.tool = "run_do_selected_lines"
    /\ last.err = "SpawnFailed"
    /\ last.temp # Empty /\ last.temp \notin DOMAIN files

\* C15: the log path a run reads and reports, and the one the cleanup of a
\* run of selected lines deletes, is the path where the interpreter writes
\* the log of the script: the script's path with its final extension
\* replaced by .log, in the script's directory and never the script itself
C15_LogPathIsCompanionLog ==
    [][(Completed /\ last'.outcome.spawned)
        => /\ last'.logPath = InterpreterLogPath(proc.doFile)
           /\ LogPathOf(proc.doFile) = InterpreterLogPath(proc.doFile)
           /\ last'.logPath # proc.doFile
           /\ Dirname(last'.logPath) = Dirname(proc.doFile)]_vars

\* C16: edit_do_file answers with the confirmation only when the call
\* changed the script's content, and answers a request whose operation is
\* none of add_variable, add_analysis, insert_section with a failure
C16_ConfirmationMeansChange ==
    [][(Called /\ Req.tool = "edit_do_file")
        => /\ last'.text = "FileModified"
                 => /\ ResolvePath(Req.path) \in DOMAIN files
                    /\ files'[ResolvePath(Req.path)] # files[ResolvePath(Req.path)]
           /\ Req.args.operation \notin {"add_variable", "add_analysis", "insert_section"}
                 => last'.text = "Error"]_vars

====
